---- MODULE Spec2Model ----
(***************************************************************************)
(* Model of store/postgres/src/jobs.rs: the job that removes unused        *)
(* deployments (RemoveDeploymentsJob) working on the tables of the         *)
(* Postgres store.  The database is one record `db` whose fields are the   *)
(* tables the job reads and writes; the job is a process whose position    *)
(* in removal_loop is `pc`.                                                *)
(*                                                                         *)
(* Spec           one job, invoked again and again, alone on the tables    *)
(* SpecCorrupt    both jobs, on a store that may hold an id that is not a  *)
(*                valid deployment id                                      *)
(* SpecScheduler  the process from its start: register, then the runner    *)
(*                invoking the jobs it holds, fairly                       *)
(* SpecOverlap    the job and one more invocation of it that overlaps      *)
(* SpecRace       the job and another connection that writes to the tables *)
(***************************************************************************)
EXTENDS Integers, Sequences, FiniteSets, Bags, TLC

\* ------------------------------------------------------------------ bounds
NumDeployments == 3     \* deployments in the catalog at the start
SlowStep == 200         \* seconds a slow statement takes; a very slow one takes twice that

\* ------------------------------------------------------- program constants
TIME_LIMIT == 300       \* Duration::from_secs(300)
I32_MAX == 2147483647   \* the range of ToPrimitive::to_i32

MaxWrites == 1          \* writes of the rest of the store while the job is followed

\* ----------------------------------------------------------------- values
\* A nullable column or a Rust Option: None is NULL, Some(x) is the value x.
None == <<>>
Some(x) == <<x>>

\* Numeric columns (BigDecimal) are counted in units of 2^30, so that values
\* outside the range of an i32 are within the integers of the model checker:
\* 0 and 1 fit an i32, 2 and more do not.
NumericUnit == 2^30

DeploymentIds == 1..NumDeployments
VersionIds == 1..(2 * NumDeployments)
SubgraphIds == {"s1", "s2"}
Relational == "Relational"
Split == "Split"
Durations == {0, SlowStep, 2 * SlowStep}
MaxElapsed == 2 * SlowStep      \* the clock of one invocation is followed up to here

\* The name of the subgraph with id sg, and the name of the schema of
\* deployment id.
SubgraphName(sg) == <<"name", sg>>
SchemaName(id) == <<"sgd", id>>

Min(S) == CHOOSE x \in S : \A y \in S : x <= y
Max(S) == CHOOSE x \in S : \A y \in S : x >= y

RECURSIVE SetToSeq(_)
SetToSeq(S) ==
    IF S = {} THEN <<>>
    ELSE LET x == CHOOSE y \in S : TRUE IN <<x>> \o SetToSeq(S \ {x})

\* BigDecimal::to_i32: the value when it fits an i32, None otherwise.
to_i32(n) == IF n <= I32_MAX \div NumericUnit THEN Some(n) ELSE None

\* f32::floor of a row estimate given in tenths.
floor(f) == f \div 10

VARIABLES
    db0,          \* the tables before the job ran for the first time
    db,           \* the tables: d, ds, a, s, v, sz, rd, and the schemas and metadata rows
    pc,           \* where the job is: idle, query, lookup, remove, budget
    sid,          \* the id the query of next_removable_deployment selected
    deployment,   \* the DeploymentSchema the loop is removing
    elapsed,      \* start.elapsed(), in seconds
    outcome,      \* how the last finished invocation ended
    prevDrained,  \* whether the invocation before the current one ended for want of a candidate
    startDb,      \* the tables when the current invocation started
    removed,      \* the deployments whose removal committed in the current invocation
    attempts,     \* removal transactions started in the current invocation
    commits,      \* removal transactions committed since the start
    iterStart,    \* start.elapsed() when the current iteration of the loop began
    lastTx,       \* the removal transaction that just ended, if one did
    registered,   \* the jobs the runner holds, each with its interval in seconds
    vacuum,       \* how the last run of the vacuum job ended
    writes,       \* writes of the rest of the store since the start
    inv2          \* the locals of an invocation of the job that overlaps the first

\* What is outside an invocation of RemoveDeploymentsJob.
aux == <<registered, vacuum, writes, inv2>>

vars == <<db0, db, pc, sid, deployment, elapsed, outcome, prevDrained, startDb,
          removed, attempts, commits, iterStart, lastTx, aux>>

\* ------------------------------------------------------------------ tables
\* d, subgraphs.subgraph_deployment: the bookkeeping row of a deployment.
BookkeepingRow(id) ==
    [id |-> id,
     entity_count |-> id % 3,
     latest_ethereum_block_number |-> IF id = 1 THEN None ELSE Some(id - 1)]

\* sz, subgraph_sizes: the statistics row of a deployment; row_estimate is in tenths.
SizesRow(id) ==
    [subgraph |-> id, row_estimate |-> 10 * id + 5, total_bytes |-> id + 2,
     index_bytes |-> 1, toast_bytes |-> 0, table_bytes |-> id + 1]

\* ds, public.deployment_schemas: the catalog row of a deployment.
CatalogRow(id, version) == [subgraph |-> id, name |-> SchemaName(id), version |-> version]

\* v, subgraphs.subgraph_version; the creation times are such that the two
\* versions of a deployment differ in theirs.
VersionRow(i, sg, id) ==
    [id |-> i, subgraph |-> sg, deployment |-> id,
     created_at |-> (i + (i \div (NumDeployments + 1))) % 3]

\* s, subgraphs.subgraph.
SubgraphRow(sg, current, pending) ==
    [id |-> sg, name |-> SubgraphName(sg), current_version |-> current,
     pending_version |-> pending]

\* What the store did with a deployment before the job starts:
\*   orphan    deployed, and its subgraph was removed with its versions
\*   old       a version of its subgraph that was superseded
\*   old2      a superseded version of each of the two subgraphs
\*   current   deployed as the current version of its subgraph
\*   pending   deployed as the pending version of its subgraph
\*   assigned  a superseded version that is still assigned to an indexing node
\*   split     an unused deployment that does not use relational storage
Kinds == {"orphan", "old", "old2", "current", "pending", "assigned", "split"}

\* Deployment id was deployed to the subgraph HomeOf(id) as version id; an
\* old2 deployment also to the other subgraph, as version NumDeployments + id.
HomeOf(id) == IF id % 2 = 1 THEN "s1" ELSE "s2"
OtherOf(id) == IF id % 2 = 1 THEN "s2" ELSE "s1"

\* The version of subgraph sg that was deployed last with the given kind.
Latest(kind, sg, what) ==
    LET ids == {id \in DeploymentIds : kind[id] = what /\ HomeOf(id) = sg}
    IN IF ids = {} THEN None ELSE Some(Max(ids))

\* The tables of a store whose deployments have the given kinds: every
\* deployment has its bookkeeping row, its catalog row and its schema.
Catalog(kind) ==
    [d |-> {BookkeepingRow(id) : id \in DeploymentIds},
     ds |-> {CatalogRow(id, IF kind[id] = "split" THEN Split ELSE Relational) :
                id \in DeploymentIds},
     schemas |-> {SchemaName(id) : id \in DeploymentIds},
     metadata |-> [id \in DeploymentIds |-> (id % 2) + 1],
     a |-> {id \in DeploymentIds : kind[id] = "assigned"},
     v |-> {VersionRow(id, HomeOf(id), id) :
                id \in {x \in DeploymentIds : kind[x] \notin {"orphan", "split"}}}
           \cup {VersionRow(NumDeployments + id, OtherOf(id), id) :
                id \in {x \in DeploymentIds : kind[x] = "old2"}},
     s |-> {SubgraphRow(sg, Latest(kind, sg, "current"), Latest(kind, sg, "pending")) :
                sg \in SubgraphIds},
     sz |-> {SizesRow(id) : id \in {x \in DeploymentIds : x % 3 # 2}},
     rd |-> EmptyBag]

Catalogs == {Catalog(kind) : kind \in [DeploymentIds -> Kinds]}

\* The stores whose deployments are unused or were deployed as the current
\* version of their subgraph.
SmallCatalogs == {Catalog(kind) : kind \in [DeploymentIds -> {"orphan", "current"}]}

\* ------------------------------------------- next_removable_deployment
\* not(exists(a where a.id = d.id))
AssignedNever(t, id) == FALSE
Assigned(t, id) == id \in t.a

\* exists(s join v on s.id = v.subgraph where d.id = v.deployment and
\*        (s.current_version = v.id or s.pending_version = v.id))
CurrentOnly(t, id) ==
    \E sg \in t.s, ver \in t.v :
        /\ sg.id = ver.subgraph
        /\ id = ver.deployment
        /\ sg.current_version = Some(ver.id)

CurrentOrPending(t, id) ==
    \E sg \in t.s, ver \in t.v :
        /\ sg.id = ver.subgraph
        /\ id = ver.deployment
        /\ (sg.current_version = Some(ver.id) \/ sg.pending_version = Some(ver.id))

\* The ids the query selects from: d join ds on d.id = ds.subgraph, filtered.
RemovableIds(t) ==
    {row.id : row \in
        {x \in t.d : \E c \in t.ds :
            /\ x.id = c.subgraph
            /\ c.version = Relational
            /\ ~Assigned(t, x.id)
            /\ ~CurrentOrPending(t, x.id)}}

\* .first::<String>(conn).optional()?: an error, no row, or some row.
QueryResultsErrorAsNone(ids, fails) ==
    IF fails \/ ids = {} THEN {[tag |-> "none", id |-> None]}
    ELSE {[tag |-> "some", id |-> Some(i)] : i \in ids}

QueryResults(ids, fails) ==
    IF fails THEN {[tag |-> "err", id |-> None]}
    ELSE IF ids = {} THEN {[tag |-> "none", id |-> None]}
    ELSE {[tag |-> "some", id |-> Some(i)] : i \in ids}

\* SubgraphDeploymentId::new: an error for a string that is no deployment id.
SubgraphDeploymentId_new(id) == [ok |-> id \in DeploymentIds, id |-> id]

\* crate::entities::find_schema: the catalog row of the deployment, if any.
find_schema(t, id) ==
    LET rows == {c \in t.ds : c.subgraph = id}
    IN IF rows = {} THEN None ELSE Some(CHOOSE c \in rows : TRUE)

\* ------------------------------------------------------ remove_deployment
FailPoints == {"none", "metadata", "drop_schema", "catalog", "versions", "audit"}

\* sql/remove_metadata.sql: deletes the metadata rows of the deployment and
\* returns their number.
remove_metadata(t, dep) ==
    [db |-> [t EXCEPT !.metadata[dep.subgraph] = 0],
     metadata_count |-> t.metadata[dep.subgraph]]

\* drop schema <name> cascade is an error when there is no such schema.
schema_exists_or_skipped(t, dep) == TRUE
schema_exists(t, dep) == dep.name \in t.schemas

drop_schema(t, dep) == [t EXCEPT !.schemas = @ \ {dep.name}]

\* delete from deployment_schemas where name = <name>
delete_deployment_schema_not_executed(t, dep) == t
delete_deployment_schema(t, dep) == [t EXCEPT !.ds = {c \in @ : c.name # dep.name}]

remove_versions_unfiltered(t, dep) ==
    LET stamps == {to_i32(r.created_at) : r \in t.v} \ {None}
        rows == SetToSeq({sg \in t.s : sg.id \in {r.subgraph : r \in t.v}})
    IN [db |-> [t EXCEPT !.v = {}],
        created_at |-> IF stamps = {} THEN None ELSE Some(Min({x[1] : x \in stamps})),
        subgraphs |-> [i \in 1..Len(rows) |-> rows[i].name]]

\* The delete sparing the versions that are current or pending.
remove_versions_sparing_live(t, dep) ==
    LET gone == {r \in t.v : /\ r.deployment = dep.subgraph
                             /\ \A sg \in t.s : Some(r.id) \notin
                                    {sg.current_version, sg.pending_version}}
        stamps == {to_i32(r.created_at) : r \in gone} \ {None}
        subgraphs == {r.subgraph : r \in gone}
        rows == SetToSeq({sg \in t.s : sg.id \in subgraphs})
    IN [db |-> [t EXCEPT !.v = @ \ gone],
        created_at |-> IF stamps = {} THEN None ELSE Some(Min({x[1] : x \in stamps})),
        subgraphs |-> [i \in 1..Len(rows) |-> rows[i].name]]

\* The delete filtered by the subgraph of the versions, not by the deployment.
remove_versions_of_subgraph(t, dep) ==
    LET subgraphs == {r.subgraph : r \in {x \in t.v : x.deployment = dep.subgraph}}
        gone == {r \in t.v : r.subgraph \in subgraphs}
        stamps == {to_i32(r.created_at) : r \in gone} \ {None}
        rows == SetToSeq({sg \in t.s : sg.id \in subgraphs})
    IN [db |-> [t EXCEPT !.v = @ \ gone],
        created_at |-> IF stamps = {} THEN None ELSE Some(Min({x[1] : x \in stamps})),
        subgraphs |-> [i \in 1..Len(rows) |-> rows[i].name]]

\* The latest creation time in place of the earliest.
remove_versions_latest(t, dep) ==
    LET gone == {r \in t.v : r.deployment = dep.subgraph}
        stamps == {to_i32(r.created_at) : r \in gone} \ {None}
        subgraphs == {r.subgraph : r \in gone}
        rows == SetToSeq({sg \in t.s : sg.id \in subgraphs})
    IN [db |-> [t EXCEPT !.v = @ \ gone],
        created_at |-> IF stamps = {} THEN None ELSE Some(Max({x[1] : x \in stamps})),
        subgraphs |-> [i \in 1..Len(rows) |-> rows[i].name]]

remove_versions(t, dep) ==
    LET gone == {r \in t.v : r.deployment = dep.subgraph}
        stamps == {to_i32(r.created_at) : r \in gone} \ {None}
        subgraphs == {r.subgraph : r \in gone}
        rows == SetToSeq({sg \in t.s : sg.id \in subgraphs})
    IN [db |-> [t EXCEPT !.v = @ \ gone],
        created_at |-> IF stamps = {} THEN None ELSE Some(Min({x[1] : x \in stamps})),
        subgraphs |-> [i \in 1..Len(rows) |-> rows[i].name]]

\* The size columns of the audit row: all null without a statistics row.
SizeColumns(sizes) ==
    IF sizes = {} THEN
        [row_count |-> None, total_bytes |-> None, index_bytes |-> None,
         toast_bytes |-> None, table_bytes |-> None]
    ELSE LET z == CHOOSE r \in sizes : TRUE
         IN [row_count |-> Some(floor(z.row_estimate)),
             total_bytes |-> Some(z.total_bytes),
             index_bytes |-> Some(z.index_bytes),
             toast_bytes |-> Some(z.toast_bytes),
             table_bytes |-> Some(z.table_bytes)]

\* The entity count and block number of the audit row, from the bookkeeping row.
BookkeepingColumnsOrZero(row) ==
    [entity_count |-> IF to_i32(row.entity_count) = None THEN Some(0)
                      ELSE to_i32(row.entity_count),
     latest_ethereum_block_number |->
        IF row.latest_ethereum_block_number = None THEN None
        ELSE to_i32(row.latest_ethereum_block_number[1])]

BookkeepingColumns(row) ==
    [entity_count |-> to_i32(row.entity_count),
     latest_ethereum_block_number |->
        IF row.latest_ethereum_block_number = None THEN None
        ELSE to_i32(row.latest_ethereum_block_number[1])]

\* sz ... .get_result(conn).optional()?: the statistics rows of the
\* deployment; that there is none is no error.
read_sizes_required(t, dep) ==
    LET rows == {r \in t.sz : r.subgraph = dep.subgraph}
    IN [ok |-> rows # {}, rows |-> rows]

read_sizes(t, dep) == [ok |-> TRUE, rows |-> {r \in t.sz : r.subgraph = dep.subgraph}]

record_removal(t, dep, created_at, subgraphs) ==
    LET rows == {r \in t.d : r.id = dep.subgraph}
        sizes == read_sizes(t, dep)
    IN IF rows = {} \/ ~sizes.ok THEN [ok |-> FALSE, db |-> t, entity_count |-> None]
       ELSE LET b == BookkeepingColumns(CHOOSE r \in rows : TRUE)
                z == SizeColumns(sizes.rows)
                rec == [deployment |-> dep.subgraph,
                        schema_name |-> dep.name,
                        created_at |-> created_at,
                        subgraphs |-> subgraphs,
                        entity_count |-> b.entity_count,
                        latest_ethereum_block_number |-> b.latest_ethereum_block_number,
                        row_count |-> z.row_count,
                        total_bytes |-> z.total_bytes,
                        index_bytes |-> z.index_bytes,
                        toast_bytes |-> z.toast_bytes,
                        table_bytes |-> z.table_bytes]
            IN [ok |-> TRUE, db |-> [t EXCEPT !.rd = @ (+) SetToBag({rec})],
                entity_count |-> b.entity_count]

\* The result of remove_deployment when a statement fails after `steps`, with
\* the tables as the statements so far left them.
Failed(t, steps) ==
    [ok |-> FALSE, db |-> t, steps |-> steps, entity_count |-> 0, metadata_count |-> 0]

\* remove_deployment with the catalog row deleted before the schema is dropped.
remove_deployment_catalog_first(t, dep, fail) ==
    IF fail = "metadata" THEN Failed(t, <<>>)
    ELSE
    LET m == remove_metadata(t, dep) IN
    IF fail = "catalog" THEN Failed(m.db, <<"metadata">>)
    ELSE
    LET t2 == delete_deployment_schema(m.db, dep) IN
    IF fail = "drop_schema" \/ ~schema_exists(t2, dep)
    THEN Failed(t2, <<"metadata", "catalog">>)
    ELSE
    LET t3 == drop_schema(t2, dep) IN
    IF fail = "versions" THEN Failed(t3, <<"metadata", "catalog", "drop_schema">>)
    ELSE
    LET rv == remove_versions(t3, dep)
        rr == record_removal(rv.db, dep, rv.created_at, rv.subgraphs) IN
    IF fail = "audit" \/ ~rr.ok
    THEN Failed(rv.db, <<"metadata", "catalog", "drop_schema", "versions">>)
    ELSE [ok |-> TRUE, db |-> rr.db,
          steps |-> <<"metadata", "catalog", "drop_schema", "versions", "audit">>,
          entity_count |-> IF rr.entity_count = None THEN 0 ELSE rr.entity_count[1],
          metadata_count |-> m.metadata_count]

\* remove_deployment, where the statement `fail` fails for a reason outside
\* the tables (a lost connection, a lock timeout).
remove_deployment(t, dep, fail) ==
    IF fail = "metadata" THEN Failed(t, <<>>)
    ELSE
    LET m == remove_metadata(t, dep) IN
    IF fail = "drop_schema" \/ ~schema_exists(m.db, dep)
    THEN Failed(m.db, <<"metadata">>)
    ELSE
    LET t2 == drop_schema(m.db, dep) IN
    IF fail = "catalog" THEN Failed(t2, <<"metadata", "drop_schema">>)
    ELSE
    LET t3 == delete_deployment_schema(t2, dep) IN
    IF fail = "versions" THEN Failed(t3, <<"metadata", "drop_schema", "catalog">>)
    ELSE
    LET rv == remove_versions(t3, dep)
        rr == record_removal(rv.db, dep, rv.created_at, rv.subgraphs) IN
    IF fail = "audit" \/ ~rr.ok
    THEN Failed(rv.db, <<"metadata", "drop_schema", "catalog", "versions">>)
    ELSE [ok |-> TRUE, db |-> rr.db,
          steps |-> <<"metadata", "drop_schema", "catalog", "versions", "audit">>,
          entity_count |-> IF rr.entity_count = None THEN 0 ELSE rr.entity_count[1],
          metadata_count |-> m.metadata_count]

\* conn.transaction(|| ...): the statements commit together or not at all.
transaction_autocommit(t, res) == res.db
transaction(t, res) == IF res.ok THEN res.db ELSE t

\* ----------------------------------------------------------- removal_loop
Running == [result |-> "running", reason |-> "-"]
NotRun == [result |-> "none", reason |-> "-"]

NoTx == [ok |-> FALSE, steps |-> <<"-">>, partial |-> FALSE]

\* The loop going on to the next candidate after an error.
FinishSkippingErrors(result, reason) ==
    /\ pc' = IF result = "err" THEN "query" ELSE "idle"
    /\ outcome' = IF result = "err" THEN Running ELSE [result |-> result, reason |-> reason]
    /\ sid' = None
    /\ deployment' = None
    /\ elapsed' = 0
    /\ iterStart' = 0

\* removal_loop returns and drops its locals; run logs an error; the scheduler
\* gets control back.
Finish(result, reason) ==
    /\ pc' = "idle"
    /\ outcome' = [result |-> result, reason |-> reason]
    /\ sid' = None
    /\ deployment' = None
    /\ elapsed' = 0
    /\ iterStart' = 0

\* run: the scheduler invokes the job; removal_loop gets a connection and
\* notes the start time.
Run ==
    /\ pc = "idle"
    /\ prevDrained' = (outcome = [result |-> "ok", reason |-> "no_candidate"])
    /\ startDb' = db
    /\ removed' = {}
    /\ lastTx' = NoTx
    /\ attempts' = 0
    /\ \E connected \in BOOLEAN :
        IF connected
        THEN /\ pc' = "query"
             /\ outcome' = Running
             /\ UNCHANGED <<sid, deployment, elapsed, iterStart>>
        ELSE Finish("err", "get_conn")
    /\ UNCHANGED <<db0, db, commits, aux>>

\* The query of next_removable_deployment.
Query ==
    /\ pc = "query"
    /\ \E dur \in Durations, fails \in BOOLEAN :
        /\ elapsed + dur <= MaxElapsed
        /\ \E r \in QueryResults(RemovableIds(db), fails) :
            CASE r.tag = "err" -> Finish("err", "query")
              [] r.tag = "none" -> Finish("ok", "no_candidate")
              [] r.tag = "some" ->
                    /\ pc' = "lookup"
                    /\ sid' = r.id
                    /\ elapsed' = elapsed + dur
                    /\ UNCHANGED <<outcome, deployment, iterStart>>
    /\ UNCHANGED <<db0, db, prevDrained, startDb, removed, attempts, commits, lastTx, aux>>

\* SubgraphDeploymentId::new(sid).expect(..) panics on an id that is not
\* valid: the thread unwinds through removal_loop and run, which catch nothing.
Panic ==
    /\ pc' = "panicked"
    /\ outcome' = [result |-> "panic", reason |-> "expect"]
    /\ UNCHANGED <<sid, deployment, elapsed, iterStart>>

\* The rest of next_removable_deployment: the id is made a SubgraphDeploymentId,
\* then find_schema, whose result the loop takes: an error returns, None ends
\* the loop, Some enters its body.
Lookup ==
    /\ pc = "lookup"
    /\ IF ~SubgraphDeploymentId_new(sid[1]).ok THEN Panic
       ELSE \E fails \in BOOLEAN :
        IF fails THEN Finish("err", "find_schema")
        ELSE LET found == find_schema(db, sid[1])
             IN IF found = None THEN Finish("ok", "no_schema")
                ELSE /\ pc' = "remove"
                     /\ deployment' = found
                     /\ UNCHANGED <<outcome, sid, elapsed, iterStart>>
    /\ UNCHANGED <<db0, db, prevDrained, startDb, removed, attempts, commits, lastTx, aux>>

\* The body of the loop: remove_deployment in a transaction.
Remove ==
    /\ pc = "remove"
    /\ \E dur \in Durations, fail \in FailPoints :
        LET res == remove_deployment(db, deployment[1], fail)
        IN /\ elapsed + dur <= MaxElapsed
           /\ db' = transaction(db, res)
           /\ attempts' = attempts + 1
           /\ lastTx' = [ok |-> res.ok, steps |-> res.steps, partial |-> res.db # db]
           /\ IF res.ok
              THEN /\ pc' = "budget"
                   /\ removed' = removed \cup {deployment[1].subgraph}
                   /\ commits' = commits + 1
                   /\ elapsed' = elapsed + dur
                   /\ UNCHANGED <<outcome, sid, deployment, iterStart>>
              ELSE /\ Finish("err", "remove_deployment")
                   /\ UNCHANGED <<removed, commits>>
    /\ UNCHANGED <<db0, prevDrained, startDb, aux>>

\* start.elapsed() > TIME_LIMIT
over_budget_never(e) == FALSE
over_budget(e) == e > TIME_LIMIT

\* if start.elapsed() > TIME_LIMIT { return Ok(()) }, else the next iteration.
Budget ==
    /\ pc = "budget"
    /\ IF over_budget(elapsed)
       THEN Finish("ok", "budget")
       ELSE /\ pc' = "query"
            /\ iterStart' = elapsed
            /\ sid' = None
            /\ deployment' = None
            /\ UNCHANGED <<outcome, elapsed>>
    /\ lastTx' = NoTx
    /\ UNCHANGED <<db0, db, prevDrained, startDb, removed, attempts, commits, aux>>

\* The locals of an invocation that has not started.
Idle2 ==
    [pc |-> "idle", sid |-> None, deployment |-> None, elapsed |-> 0,
     outcome |-> NotRun, removed |-> {}]

\* The job about to be run for the first time on one of the given stores.
InitFrom(catalogs) ==
    /\ db0 \in catalogs
    /\ db = db0
    /\ pc = "idle"
    /\ sid = None
    /\ deployment = None
    /\ elapsed = 0
    /\ outcome = NotRun
    /\ prevDrained = FALSE
    /\ startDb = db0
    /\ removed = {}
    /\ attempts = 0
    /\ commits = 0
    /\ iterStart = 0
    /\ lastTx = NoTx
    /\ registered = <<>>
    /\ vacuum = NotRun
    /\ writes = 0
    /\ inv2 = Idle2

Init == InitFrom(Catalogs)

Next == Run \/ Query \/ Lookup \/ Remove \/ Budget

Spec == Init /\ [][Next]_vars

\* ------------------------------------------------ an overlapping invocation
\* A second invocation of run, once, at any time before, while or after the
\* first job runs: the same code on its own connection, with its own locals,
\* on the same tables.
Finish2(result, reason) ==
    inv2' = [Idle2 EXCEPT !.outcome = [result |-> result, reason |-> reason]]

Run2 ==
    /\ inv2 = Idle2
    /\ \E connected \in BOOLEAN :
        inv2' = IF connected
                THEN [Idle2 EXCEPT !.pc = "query", !.outcome = Running]
                ELSE [Idle2 EXCEPT !.outcome = [result |-> "err", reason |-> "get_conn"]]
    /\ UNCHANGED <<db0, db, pc, sid, deployment, elapsed, outcome, prevDrained, startDb,
                   removed, attempts, commits, iterStart, lastTx, registered, vacuum, writes>>

Query2 ==
    /\ inv2.pc = "query"
    /\ \E dur \in Durations, fails \in BOOLEAN :
        /\ inv2.elapsed + dur <= MaxElapsed
        /\ \E r \in QueryResults(RemovableIds(db), fails) :
            CASE r.tag = "err" -> Finish2("err", "query")
              [] r.tag = "none" -> Finish2("ok", "no_candidate")
              [] r.tag = "some" ->
                    inv2' = [inv2 EXCEPT !.pc = "lookup", !.sid = r.id, !.elapsed = @ + dur]
    /\ UNCHANGED <<db0, db, pc, sid, deployment, elapsed, outcome, prevDrained, startDb,
                   removed, attempts, commits, iterStart, lastTx, registered, vacuum, writes>>

Lookup2 ==
    /\ inv2.pc = "lookup"
    /\ IF ~SubgraphDeploymentId_new(inv2.sid[1]).ok
       THEN inv2' = [inv2 EXCEPT !.pc = "panicked",
                                 !.outcome = [result |-> "panic", reason |-> "expect"]]
       ELSE \E fails \in BOOLEAN :
        IF fails THEN Finish2("err", "find_schema")
        ELSE LET found == find_schema(db, inv2.sid[1])
             IN IF found = None THEN Finish2("ok", "no_schema")
                ELSE inv2' = [inv2 EXCEPT !.pc = "remove", !.deployment = found]
    /\ UNCHANGED <<db0, db, pc, sid, deployment, elapsed, outcome, prevDrained, startDb,
                   removed, attempts, commits, iterStart, lastTx, registered, vacuum, writes>>

Remove2 ==
    /\ inv2.pc = "remove"
    /\ \E dur \in Durations, fail \in FailPoints :
        LET res == remove_deployment(db, inv2.deployment[1], fail)
        IN /\ inv2.elapsed + dur <= MaxElapsed
           /\ db' = transaction(db, res)
           /\ IF res.ok
              THEN /\ inv2' = [inv2 EXCEPT !.pc = "budget",
                                           !.removed = @ \cup {inv2.deployment[1].subgraph},
                                           !.elapsed = @ + dur]
                   /\ commits' = commits + 1
              ELSE /\ Finish2("err", "remove_deployment")
                   /\ UNCHANGED commits
    /\ UNCHANGED <<db0, pc, sid, deployment, elapsed, outcome, prevDrained, startDb,
                   removed, attempts, iterStart, lastTx, registered, vacuum, writes>>

Budget2 ==
    /\ inv2.pc = "budget"
    /\ IF over_budget(inv2.elapsed)
       THEN Finish2("ok", "budget")
       ELSE inv2' = [inv2 EXCEPT !.pc = "query", !.sid = None, !.deployment = None]
    /\ UNCHANGED <<db0, db, pc, sid, deployment, elapsed, outcome, prevDrained, startDb,
                   removed, attempts, commits, iterStart, lastTx, registered, vacuum, writes>>

NextOverlap == Run \/ Query \/ Lookup \/ Remove \/ Budget
                \/ Run2 \/ Query2 \/ Lookup2 \/ Remove2 \/ Budget2

\* Two invocations of the job that may overlap.
InitOverlap == InitFrom(SmallCatalogs)

SpecOverlap == InitOverlap /\ [][NextOverlap]_vars

\* ---------------------------------------------------- the rest of the store
\* The deployments that are in the catalog.
Catalogued(t) == {c.subgraph : c \in t.ds}

\* The subgraph row with a version put in one of its two places.
Point(row, slot, vid) ==
    IF slot = "current" THEN [row EXCEPT !.current_version = Some(vid)]
    ELSE [row EXCEPT !.pending_version = Some(vid)]

\* The deployments another connection writes about while the job is followed:
\* the one the query of the job selected, until the job has removed it.
Selected == IF pc \in {"lookup", "remove"} THEN {sid[1]} \cap Catalogued(db) ELSE {}

\* Another connection deploys the deployment to its subgraph: a new version
\* row, made the current or the pending version of the subgraph.
CreateVersion ==
    /\ writes < MaxWrites
    /\ \E id \in Selected, slot \in {"current", "pending"} :
        LET vid == 2 * NumDeployments + writes + 1
            sg == HomeOf(id)
        IN db' = [db EXCEPT
                    !.v = @ \cup {VersionRow(vid, sg, id)},
                    !.s = {IF row.id = sg THEN Point(row, slot, vid) ELSE row : row \in @}]
    /\ writes' = writes + 1
    /\ UNCHANGED <<db0, pc, sid, deployment, elapsed, outcome, prevDrained, startDb,
                   removed, attempts, commits, iterStart, lastTx, registered, vacuum, inv2>>

\* Another connection assigns the deployment to an indexing node.
Assign ==
    /\ writes < MaxWrites
    /\ \E id \in Selected \ db.a : db' = [db EXCEPT !.a = @ \cup {id}]
    /\ writes' = writes + 1
    /\ UNCHANGED <<db0, pc, sid, deployment, elapsed, outcome, prevDrained, startDb,
                   removed, attempts, commits, iterStart, lastTx, registered, vacuum, inv2>>

InitRace == InitFrom(SmallCatalogs)

NextRace == Run \/ Query \/ Lookup \/ Remove \/ Budget \/ CreateVersion \/ Assign

\* The job and the rest of the store writing to the same tables.
SpecRace == InitRace /\ [][NextRace]_vars

\* ------------------------------------------------------ VacuumDeploymentsJob
\* VacuumDeploymentsJob::vacuum: a connection, then the one statement; either
\* may fail.
vacuum_result(connected, executed) ==
    IF ~connected THEN [result |-> "err", reason |-> "get_conn"]
    ELSE IF ~executed THEN [result |-> "err", reason |-> "vacuum"]
    ELSE [result |-> "ok", reason |-> "vacuumed"]

\* VacuumDeploymentsJob::run: vacuum, and an error is logged; run returns.
VacuumRun ==
    /\ \E connected \in BOOLEAN, executed \in BOOLEAN :
        vacuum' = vacuum_result(connected, executed)
    /\ UNCHANGED <<db0, db, pc, sid, deployment, elapsed, outcome, prevDrained, startDb,
                   removed, attempts, commits, iterStart, lastTx, registered, writes, inv2>>

\* ------------------------------------------------- register and the runner
\* Job::name of the two jobs.
VacuumName == "Vacuum subgraphs.subgraph_deployment"
RemoveName == "Remove unused deployments"
JobNames == {VacuumName, RemoveName}

\* Duration::from_secs(60)
VacuumInterval == 60

\* register: what it adds to the jobs the runner holds.
register(runner) == Append(runner, [job |-> VacuumName, interval |-> VacuumInterval])

\* The process starts: register is called, once.
Register ==
    /\ registered = <<>>
    /\ registered' = register(registered)
    /\ UNCHANGED <<db0, db, pc, sid, deployment, elapsed, outcome, prevDrained, startDb,
                   removed, attempts, commits, iterStart, lastTx, vacuum, writes, inv2>>

\* The runner lets a job it holds go on: it calls run of the job, and an
\* invocation of the removal job that has begun takes its next step.
Scheduled(job) ==
    IF job = VacuumName THEN VacuumRun
    ELSE Run \/ Query \/ Lookup \/ Remove \/ Budget

Tick(job) ==
    /\ \E i \in DOMAIN registered : registered[i].job = job
    /\ Scheduled(job)

NextScheduler == Register \/ \E job \in JobNames : Tick(job)

\* The process from its start: the jobs run only as the runner invokes them,
\* and the runner keeps invoking each job it holds.
SpecScheduler ==
    /\ Init
    /\ [][NextScheduler]_vars
    /\ WF_vars(Register)
    /\ \A job \in JobNames : WF_vars(Tick(job))

\* ------------------------------------- a store with an id that is not valid
\* A deployment id that SubgraphDeploymentId::new refuses.
CorruptId == 0

\* The store t with one more deployment, unused, whose id is not valid.
Corrupt(t) ==
    [t EXCEPT !.d = @ \cup {[BookkeepingRow(CorruptId) EXCEPT
                                !.latest_ethereum_block_number = None]},
              !.ds = @ \cup {CatalogRow(CorruptId, Relational)},
              !.schemas = @ \cup {SchemaName(CorruptId)}]

InitCorrupt == InitFrom(SmallCatalogs \cup {Corrupt(t) : t \in SmallCatalogs})

NextCorrupt == Run \/ Query \/ Lookup \/ Remove \/ Budget \/ VacuumRun

\* Both jobs run on a store that may hold a deployment id that is not valid.
SpecCorrupt == InitCorrupt /\ [][NextCorrupt]_vars

\* ---------------------------------------------------------------- claims
\* The eligibility rule as the specification words it.
HasRelationalStorage(t, id) == \E c \in t.ds : c.subgraph = id /\ c.version = Relational
HasAssignment(t, id) == \E x \in t.a : x = id
IsLiveVersion(t, ver) ==
    \E sg \in t.s :
        /\ sg.id = ver.subgraph
        /\ Some(ver.id) \in {sg.current_version, sg.pending_version}
Referenced(t, id) == \E ver \in t.v : ver.deployment = id /\ IsLiveVersion(t, ver)
Eligible(t, id) ==
    HasRelationalStorage(t, id) /\ ~HasAssignment(t, id) /\ ~Referenced(t, id)
EligibleIds(t) == {id \in DeploymentIds : Eligible(t, id)}
Protected(t, id) == HasAssignment(t, id) \/ Referenced(t, id)

\* The number of rows of removed_deployments for a deployment.
RecordsFor(t, id) ==
    LET recs == {r \in BagToSet(t.rd) : r.deployment = id}
    IN BagCardinality([r \in recs |-> t.rd[r]])

\* All that the store holds for a deployment.
Footprint(t, id) ==
    [schema |-> SchemaName(id) \in t.schemas,
     catalog |-> {c \in t.ds : c.subgraph = id},
     bookkeeping |-> {r \in t.d : r.id = id},
     metadata |-> t.metadata[id],
     versions |-> {r \in t.v : r.deployment = id},
     sizes |-> {r \in t.sz : r.subgraph = id},
     assigned |-> id \in t.a,
     records |-> RecordsFor(t, id)]

\* The schema, the catalog row and the versions of a deployment are gone.
Gone(t, id) ==
    /\ SchemaName(id) \notin t.schemas
    /\ \A c \in t.ds : c.subgraph # id
    /\ \A r \in t.v : r.deployment # id

Drained == [result |-> "ok", reason |-> "no_candidate"]

\* C1: next_removable_deployment returns a deployment only if it uses
\* relational storage, is not assigned and is not the current or pending
\* version of a subgraph; it returns None only when no deployment is eligible,
\* and each eligible deployment is a possible result.
C1_FinderReturnsEligible ==
    /\ pc = "lookup" => Eligible(db, sid[1])
    /\ pc = "remove" => deployment[1] \in db.ds /\ Eligible(db, deployment[1].subgraph)
    /\ (pc = "idle" /\ outcome = Drained) => EligibleIds(db) = {}
    /\ pc = "query" => \A id \in EligibleIds(db) : ENABLED (Query /\ sid' = Some(id))
    /\ (pc = "query" /\ EligibleIds(db) = {}) => ENABLED (Query /\ outcome' = Drained)

C1_Witness ==
    /\ pc = "remove"
    /\ Cardinality(EligibleIds(db)) = 2
    /\ \E id \in DeploymentIds : HasAssignment(db, id)

\* C2: a deployment that is assigned, or is the current or pending version of
\* a subgraph, keeps its schema, its catalog row and its versions and gets no
\* removal record, however often the job runs; with D1 assigned, D2 current
\* and D3 orphaned, a run removes exactly D3 and records exactly that.
ScenarioKind(id) ==
    CASE id = 2 -> "current" [] id = 3 -> "orphan" [] OTHER -> "assigned"
Scenario == Catalog([id \in DeploymentIds |-> ScenarioKind(id)])

C2_ProtectedUntouched ==
    /\ \A id \in DeploymentIds :
        Protected(db0, id) =>
            /\ Footprint(db, id) = Footprint(db0, id)
            /\ SchemaName(id) \in db.schemas
            /\ \E c \in db.ds : c.subgraph = id
            /\ RecordsFor(db, id) = 0
    /\ (db0 = Scenario /\ pc = "idle" /\ outcome.result = "ok") =>
        /\ \A id \in DeploymentIds : Gone(db, id) <=> id = 3
        /\ \A id \in DeploymentIds \ {3} : Footprint(db, id) = Footprint(db0, id)
        /\ BagCardinality(db.rd) = 1
        /\ RecordsFor(db, 3) = 1

C2_Witness ==
    /\ db0 = Scenario
    /\ pc = "idle"
    /\ outcome.result = "ok"
    /\ commits = 1

\* C3: when a statement of remove_deployment fails, the transaction rolls
\* back: the tables are as before the attempt, nothing is recorded, and the
\* deployment is still eligible.
C3_FailedRemovalRollsBack ==
    [][(pc = "remove" /\ pc' = "idle") =>
        /\ db' = db
        /\ commits' = commits
        /\ Eligible(db', deployment[1].subgraph)]_vars

C3_Witness ==
    /\ pc = "idle"
    /\ outcome = [result |-> "err", reason |-> "remove_deployment"]
    /\ lastTx.partial
    /\ Len(lastTx.steps) = 4

\* C4: a deployment whose removal committed has no schema, no catalog row and
\* no version, and exactly one removal record; there are as many records as
\* committed removals, and a record is never changed or deleted.
C4_OneRecordPerRemoval ==
    /\ [](\A id \in DeploymentIds :
            /\ id \in removed => RecordsFor(db, id) = 1
            /\ RecordsFor(db, id) >= 1 => Gone(db, id) /\ RecordsFor(db, id) = 1)
    /\ [](BagCardinality(db.rd) = commits)
    /\ [][db.rd \sqsubseteq db'.rd]_vars

C4_Witness ==
    /\ pc = "idle"
    /\ commits = 2
    /\ BagCardinality(db.rd) = 2
    /\ \E id \in DeploymentIds : Gone(db, id) /\ id \notin removed

\* The bookkeeping row of a deployment.
BookkeepingOf(t, id) == CHOOSE r \in t.d : r.id = id

\* Whether a numeric value, counted in units of 2^30, is at most 2^31 - 1.
InI32(n) == n * (NumericUnit \div 2) <= I32_MAX \div 2

\* C5 as claimed: the removal record carries the entity count and the latest
\* block number that the bookkeeping row held before the removal.
C5_RecordCarriesBookkeeping ==
    \A rec \in BagToSet(db.rd) :
        LET row == BookkeepingOf(db0, rec.deployment)
        IN /\ rec.entity_count = Some(row.entity_count)
           /\ rec.latest_ethereum_block_number = row.latest_ethereum_block_number

\* C5 as amended: the removal record carries the entity count and the latest
\* block number that the bookkeeping row held before the removal, each as an
\* i32: a value outside the range of an i32 is recorded as null, and so is a
\* null block number.  The row is read after the deletes of the transaction.
C5_RecordCarriesBookkeepingAsI32 ==
    \A rec \in BagToSet(db.rd) :
        LET row == BookkeepingOf(db0, rec.deployment)
            latest == row.latest_ethereum_block_number
        IN /\ rec.entity_count =
                IF InI32(row.entity_count) THEN Some(row.entity_count) ELSE None
           /\ rec.latest_ethereum_block_number =
                IF latest # None /\ InI32(latest[1]) THEN latest ELSE None
           /\ BookkeepingOf(db, rec.deployment) = row

C5_Witness ==
    /\ \E rec \in BagToSet(db.rd) :
        /\ rec.entity_count = None
        /\ rec.latest_ethereum_block_number # None
    /\ \E rec \in BagToSet(db.rd) :
        /\ rec.entity_count # None
        /\ rec.latest_ethereum_block_number = None

\* C6: without a statistics row the removal still succeeds and the five size
\* fields of its record are null; with one, the five are not null.
SizeFields(rec) ==
    {rec.row_count, rec.total_bytes, rec.index_bytes, rec.toast_bytes, rec.table_bytes}

C6_SizesNullIffNoStatistics ==
    /\ \A rec \in BagToSet(db.rd) :
        IF \E z \in db0.sz : z.subgraph = rec.deployment
        THEN None \notin SizeFields(rec)
        ELSE SizeFields(rec) = {None}
    /\ pc = "remove" => remove_deployment(db, deployment[1], "none").ok

C6_Witness ==
    /\ \E rec \in BagToSet(db.rd) : SizeFields(rec) = {None}
    /\ \E rec \in BagToSet(db.rd) : None \notin SizeFields(rec)

\* C7: an invocation that follows one that ended for want of a candidate
\* removes nothing: it changes no table and adds no removal record.
C7_SecondRunRemovesNothing ==
    prevDrained => db = startDb /\ attempts = 0 /\ removed = {}

C7_Witness ==
    /\ prevDrained
    /\ pc = "idle"
    /\ outcome = Drained
    /\ commits >= 1

C9_FailFast ==
    /\ [][(pc = "remove" /\ ~lastTx'.ok) =>
            (pc' = "idle" /\ outcome'.result = "err" /\ db' = db /\ removed' = removed)]_vars
    /\ [][(outcome.result # "err" /\ outcome'.result = "err") =>
            (pc' = "idle" /\ db' = db /\ removed' \subseteq removed /\ commits' = commits)]_vars
    /\ [][outcome.result = "err" => (db' = db /\ removed' = {})]_vars
    /\ [](outcome.result = "err" =>
            /\ pc = "idle"
            /\ \A id \in removed : Gone(db, id) /\ RecordsFor(db, id) = 1)

C9_Witness ==
    /\ pc = "idle"
    /\ outcome = [result |-> "err", reason |-> "remove_deployment"]
    /\ removed # {}
    /\ Cardinality(EligibleIds(db)) >= 2

\* C10 as claimed: an invocation that ends with a failure leaves the tables
\* as they were before the invocation.
C10_FailedRunChangesNothing ==
    (pc = "idle" /\ outcome.result = "err") => db = startDb

\* C10 as amended: an invocation that ends with a failure leaves the tables
\* as they were after its last committed removal: the deployments it removed
\* before the failure are gone, with one record each, and all else is as
\* before the invocation; the tables are unchanged when nothing committed
\* before the failure.
C10_FailedRunKeepsCommitted ==
    (pc = "idle" /\ outcome.result = "err") =>
        /\ removed = {} => db = startDb
        /\ \A id \in DeploymentIds \ removed : Footprint(db, id) = Footprint(startDb, id)
        /\ \A id \in removed :
            /\ Eligible(startDb, id)
            /\ Gone(db, id)
            /\ RecordsFor(db, id) = RecordsFor(startDb, id) + 1
        /\ db.a = startDb.a
        /\ db.s = startDb.s
        /\ startDb.rd \sqsubseteq db.rd
        /\ BagCardinality(db.rd) = BagCardinality(startDb.rd) + Cardinality(removed)

C10_Witness ==
    /\ pc = "idle"
    /\ outcome.result = "err"
    /\ removed # {}
    /\ db # startDb
    /\ EligibleIds(db) # {}

\* C11 as claimed: every failure in an invocation of either job, an id that
\* is not a valid deployment id among them, ends as a log entry: run returns
\* and never panics.
C11_RunAlwaysReturns ==
    /\ pc # "panicked"
    /\ outcome.result \in {"none", "running", "ok", "err"}
    /\ vacuum.result \in {"none", "ok", "err"}

\* C12 as claimed: the runner keeps invoking the jobs that register
\* registered, nothing fails and nothing else writes; then eventually no
\* eligible deployment is left.
C12_EligibleEventuallyRemoved == <>[](EligibleIds(db) = {})

\* C13 as claimed: after register both jobs are among the jobs the runner
\* holds, each once, the vacuum job with an interval of 60 seconds.
C13_BothJobsRegistered ==
    registered # <<>> =>
        /\ \A job \in JobNames :
            Cardinality({i \in DOMAIN registered : registered[i].job = job}) = 1
        /\ \A i \in DOMAIN registered :
            registered[i].job = VacuumName => registered[i].interval = 60

\* C14 as claimed: when the query selected an id and find_schema finds no
\* schema for it, the invocation ends with an error, not as if no candidate
\* were left.
C14_MissingSchemaIsAnError ==
    /\ outcome.reason = "no_schema" => outcome.result = "err"
    /\ inv2.outcome.reason = "no_schema" => inv2.outcome.result = "err"

\* C19: when two invocations overlap and next_removable_deployment returned
\* the same deployment to both, the removal of at most one of them commits
\* and at most one removal record is written for the deployment; the other
\* invocation ends with an error and changes no table.
C19_OverlapRemovesOnce ==
    /\ [](\A id \in DeploymentIds : RecordsFor(db, id) <= 1)
    /\ [](BagCardinality(db.rd) = commits)
    /\ [](removed \cap inv2.removed = {})
    /\ [][(pc = "remove" /\ pc' # pc /\ Gone(db, deployment[1].subgraph)) =>
            (pc' = "idle" /\ outcome'.result = "err" /\ db' = db)]_vars
    /\ [][(inv2.pc = "remove" /\ inv2'.pc # inv2.pc /\ Gone(db, inv2.deployment[1].subgraph)) =>
            (inv2'.pc = "idle" /\ inv2'.outcome.result = "err" /\ db' = db)]_vars

C19_Witness ==
    /\ pc = "idle"
    /\ outcome = [result |-> "err", reason |-> "remove_deployment"]
    /\ lastTx.steps = <<"metadata">>
    /\ ~lastTx.partial
    /\ removed = {}
    /\ inv2.removed # {}
    /\ db # startDb

\* What is left to do in an invocation: the eligible deployments, and within
\* an iteration the steps to its end.
Stage(p) ==
    CASE p = "query" -> 3 [] p = "lookup" -> 2 [] p = "remove" -> 1 [] p = "budget" -> 4
      [] OTHER -> 0
Variant == IF pc = "idle" THEN 0 ELSE 4 * Cardinality(EligibleIds(db)) + Stage(pc)

\* C15: with no other writer an invocation ends: a committed removal takes
\* the deployment out of the eligible ones for good and adds none, so every
\* step of an invocation brings its end nearer, no step is ever stuck, and an
\* invocation removes at most as many deployments as were eligible at its
\* start.
C15_InvocationTerminates ==
    /\ [](Cardinality(removed) <= Cardinality(EligibleIds(startDb)))
    /\ [](attempts <= Cardinality(EligibleIds(startDb)))
    /\ [](removed \subseteq EligibleIds(startDb) \ EligibleIds(db))
    /\ [](pc # "idle" => ENABLED Next)
    /\ [][(pc = "remove" /\ pc' = "budget") =>
            /\ deployment[1].subgraph \in EligibleIds(db)
            /\ EligibleIds(db') = EligibleIds(db) \ {deployment[1].subgraph}]_vars
    /\ [][EligibleIds(db') \subseteq EligibleIds(db)]_vars
    /\ [][pc # "idle" => Variant' < Variant]_vars

C15_Witness ==
    /\ pc = "idle"
    /\ outcome = Drained
    /\ Cardinality(removed) = 2
    /\ Cardinality(EligibleIds(startDb)) = 2
    /\ attempts = 2

\* The order of the statements as the specification gives it.
StepOrder == <<"metadata", "drop_schema", "catalog", "versions", "audit">>

\* Whether the tables t2 of a transaction begun on t1 show the effect of a
\* statement on the deployment, and whether they show that it has not run.
Done(step, t1, t2, dep) ==
    CASE step = "metadata" -> t2.metadata[dep.subgraph] = 0
      [] step = "drop_schema" -> dep.name \notin t2.schemas
      [] step = "catalog" -> \A c \in t2.ds : c.name # dep.name
      [] step = "versions" -> \A r \in t2.v : r.deployment # dep.subgraph
      [] step = "audit" -> RecordsFor(t2, dep.subgraph) = RecordsFor(t1, dep.subgraph) + 1

NotDone(step, t1, t2, dep) ==
    CASE step = "metadata" ->
            t2.metadata[dep.subgraph] = t1.metadata[dep.subgraph] /\ t2.metadata[dep.subgraph] > 0
      [] step = "drop_schema" -> dep.name \in t2.schemas
      [] step = "catalog" -> dep \in t2.ds
      [] step = "versions" -> t2.v = t1.v
      [] step = "audit" -> t2.rd = t1.rd

\* C16: the statements of a removal run in the order metadata, schema,
\* catalog row, versions, audit record: when one of them fails, the
\* transaction has done exactly those before it and none after it, and it
\* succeeds only when all five ran.
C16_StepsInOrder ==
    /\ [](pc = "remove" =>
            \A fail \in FailPoints :
                LET res == remove_deployment(db, deployment[1], fail)
                    k == Len(res.steps)
                IN /\ res.steps = SubSeq(StepOrder, 1, k)
                   /\ res.ok <=> fail = "none"
                   /\ res.ok <=> k = 5
                   /\ fail # "none" => k < 5 /\ StepOrder[k + 1] = fail
                   /\ \A i \in 1..5 :
                        IF i <= k THEN Done(StepOrder[i], db, res.db, deployment[1])
                        ELSE NotDone(StepOrder[i], db, res.db, deployment[1]))
    /\ [][pc = "remove" =>
            /\ lastTx'.steps = SubSeq(StepOrder, 1, Len(lastTx'.steps))
            /\ lastTx'.ok <=> lastTx'.steps = StepOrder
            /\ lastTx'.ok <=> pc' = "budget"
            /\ lastTx'.ok => \A i \in 1..5 : Done(StepOrder[i], db, db', deployment[1])]_vars

C16_Witness ==
    /\ pc = "idle"
    /\ outcome = [result |-> "err", reason |-> "remove_deployment"]
    /\ lastTx.steps = <<"metadata", "drop_schema">>
    /\ lastTx.partial
    /\ removed # {}

\* The version rows of a deployment before the job ran, the times among
\* their creation times that fit an i32, and the names of their subgraphs.
VersionsOf(id) == {r \in db0.v : r.deployment = id}
StampsOf(id) == {r.created_at : r \in VersionsOf(id)}
OwnersOf(id) == {SubgraphName(r.subgraph) : r \in VersionsOf(id)}
Listed(rec) == {rec.subgraphs[i] : i \in DOMAIN rec.subgraphs}

C20_RemovalTouchesOnlyItsDeployment ==
    /\ [][pc = "remove" =>
            /\ \A id \in DeploymentIds \ {deployment[1].subgraph} :
                Footprint(db', id) = Footprint(db, id)
            /\ {r \in db'.v : r.deployment # deployment[1].subgraph}
                    = {r \in db.v : r.deployment # deployment[1].subgraph}
            /\ db'.v \subseteq db.v
            /\ db'.ds \subseteq db.ds
            /\ db'.d = db.d
            /\ db'.a = db.a
            /\ db'.s = db.s
            /\ db'.sz = db.sz
            /\ db.rd \sqsubseteq db'.rd
            /\ \A rec \in BagToSet(db'.rd) :
                rec \notin BagToSet(db.rd) => rec.deployment = deployment[1].subgraph]_vars
    /\ [][(pc \in {"idle", "query", "lookup", "budget"}) => (db' = db)]_vars

C20_Witness ==
    /\ pc = "budget"
    /\ lastTx.ok
    /\ \E r \in startDb.v, q \in db.v :
        /\ r.deployment = deployment[1].subgraph
        /\ q.subgraph = r.subgraph
    /\ db.a # {}
    /\ \E sg \in db.s : sg.current_version # None

\* A subgraph row whose current or pending version is no row of the version
\* table.
Dangling(t) ==
    \E sg \in t.s :
        \E p \in {sg.current_version, sg.pending_version} \ {None} :
            \A r \in t.v : r.id # p[1]

\* C18: the removal does not look at eligibility again: a deployment that
\* another connection made current or pending, or assigned, after
\* next_removable_deployment returned it is removed all the same when no
\* statement fails, its new version row with it; the subgraph row then points
\* at a version that is gone, and the assignment is left behind.
C18_RemovalIgnoresLateReference ==
    /\ [](pc = "remove" => remove_deployment(db, deployment[1], "none").ok)
    /\ [][(pc = "remove" /\ pc' = "budget") =>
            /\ Gone(db', deployment[1].subgraph)
            /\ db'.s = db.s
            /\ db'.a = db.a]_vars
    /\ [][(pc = "remove" /\ pc' = "budget" /\ Referenced(db, deployment[1].subgraph)) =>
            Dangling(db')]_vars
    /\ [](\A id \in removed : Gone(db, id) /\ RecordsFor(db, id) = 1)

C18_Witness ==
    /\ pc = "budget"
    /\ writes = 1
    /\ Dangling(db)
    /\ ~Dangling(startDb)
    /\ \E r \in startDb.v : r.deployment = deployment[1].subgraph
    /\ Gone(db, deployment[1].subgraph)

====
